---- MODULE Spec2Model ----
(***************************************************************************)
(* Assistente de Suporte de TI: a document-grounded question answering     *)
(* assistant with two front-ends,                                          *)
(*   main.py                 the console loop (python main.py)             *)
(*   assistente_suporte.py   the chat page (streamlit run ...)             *)
(* One process runs one of the two.  The knowledge-base directory, the     *)
(* credential and the outcome of every call to the remote provider are the *)
(* environment.  Text is a sequence of one-character strings, so that      *)
(* str.lower() and str.strip() are computed, and every displayed text is a *)
(* sequence of strings.                                                    *)
(***************************************************************************)
EXTENDS Integers, Sequences, FiniteSets, TLC

VARIABLES
    frontend,        \* "console" (main.py) or "chat" (assistente_suporte.py)
    GOOGLE_API_KEY,  \* "GOOGLE_API_KEY" in os.environ
    dirExiste,       \* os.path.isdir(DIRETORIO_BASE_CONHECIMENTO)
    arquivos,        \* the files under the directory, in discovery order
    pc,              \* position of the console script; "servindo" for the chat server
    exitCode,        \* {} while the process runs, {n} once it ended with status n
    stdout,          \* what the console script printed
    documentos,      \* main.py: the module-level list loader.load() returned
    qa_chain,        \* main.py: the module-level chain, <<>> before it is built
    cache,           \* st.cache_resource of carregar_recursos: <<>> or <<entry>>
    messages,        \* st.session_state.messages of each session: <<>> (absent) or <<list>>
    tela,            \* the elements the last script run of each session put on the page
    widget,          \* the last script run of the session rendered st.chat_input
    carga,           \* report of the last execution of the document loading
    builds,          \* executions of the embedding/index-build step so far
    construidos,     \* the pipeline handles that were built
    usados,          \* the pipeline handles that answered a question
    lidas,           \* inputs read by input() / returned by st.chat_input
    invocacoes,      \* calls of qa_chain.invoke
    last             \* the last step taken: what was read, what was done with it

vars == <<frontend, GOOGLE_API_KEY, dirExiste, arquivos, pc, exitCode, stdout,
          documentos, qa_chain, cache, messages, tela, widget, carga, builds,
          construidos, usados, lidas, invocacoes, last>>

-----------------------------------------------------------------------------
(* Bounds of the model *)

MaxEntradas == 2      \* inputs read by the question loop in one run
MaxBuilds == 2        \* executions of the index-build step in one process

-----------------------------------------------------------------------------
(* Text *)

Maiusculas == <<"A","B","C","D","E","F","G","H","I","J","K","L","M",
                "N","O","P","Q","R","S","T","U","V","W","X","Y","Z">>
Minusculas == <<"a","b","c","d","e","f","g","h","i","j","k","l","m",
                "n","o","p","q","r","s","t","u","v","w","x","y","z">>

\* str.lower() on one character
LowerChar(c) ==
    IF \E k \in DOMAIN Maiusculas : Maiusculas[k] = c
    THEN Minusculas[CHOOSE k \in DOMAIN Maiusculas : Maiusculas[k] = c]
    ELSE c

\* str.lower()
Lower(s) == [k \in DOMAIN s |-> LowerChar(s[k])]

\* the characters str.strip() removes
Whitespace == {" ", "\t"}

RECURSIVE LStrip(_)
LStrip(s) ==
    IF s # <<>> /\ Head(s) \in Whitespace THEN LStrip(Tail(s)) ELSE s

RECURSIVE RStrip(_)
RStrip(s) ==
    IF s # <<>> /\ s[Len(s)] \in Whitespace
    THEN RStrip(SubSeq(s, 1, Len(s) - 1))
    ELSE s

\* str.strip()
Strip(s) == RStrip(LStrip(s))

\* truth value of a str
Truthy(s) == s # <<>>

\* what the user may type
Entradas ==
    { <<>>, <<" ", "\t">>,
      <<"s","a","i","r">>, <<"S","a","I","R">>,
      <<"E","x","i","t">>,
      <<"v","p","n">> }

\* the exception a call to the provider may raise
Erros == {"503 Service Unavailable"}

-----------------------------------------------------------------------------
(* The knowledge-base directory *)

\* a file of the directory: its extension ("" when the name has no dot) and
\* whether its parser can read it
F(ext, legivel) == [ext |-> ext, legivel |-> legivel]

\* the directories the model starts from: empty, valid files only, corrupted
\* files only, both, files of an extension outside the chat's list, a file
\* with no extension
Diretorios ==
    { <<>>,
      <<F("txt", TRUE)>>,
      <<F("pdf", FALSE)>>,
      <<F("txt", TRUE), F("pdf", FALSE)>>,
      <<F("exe", TRUE)>>,
      <<F("csv", TRUE), F("exe", FALSE)>>,
      <<F("", TRUE), F("md", TRUE), F("docx", TRUE)>> }

\* main.py: glob="**/*.*"
GlobConsole(f) == f.ext # ""

\* assistente_suporte.py: glob="**/*.{txt,pdf,docx,md,sql,csv,doc,png,pptx,xlsx}"
\* read as the alternation of the ten extensions that the pattern writes
ExtensoesAceitas ==
    {"txt", "pdf", "docx", "md", "sql", "csv", "doc", "png", "pptx", "xlsx"}

GlobChat(f) == f.ext \in ExtensoesAceitas

Indices(s) == [k \in 1..Len(s) |-> k]

\* the files the console's DirectoryLoader visits, by position in the directory
CandidatosConsole(arqs) ==
    SelectSeq(Indices(arqs), LAMBDA k : GlobConsole(arqs[k]))

\* the files the chat's DirectoryLoader visits
CandidatosChat(arqs) ==
    SelectSeq(Indices(arqs), LAMBDA k : GlobChat(arqs[k]))

ErroDeLeitura == "arquivo corrompido"

\* main.py: documentos = loader.load(), with no handler around it: the first
\* candidate that fails to parse raises out of load()
LoaderLoad(arqs) ==
    LET c == CandidatosConsole(arqs) IN
    IF \E k \in 1..Len(c) : ~arqs[c[k]].legivel
    THEN [raised |-> TRUE, documentos |-> <<>>, arquivos_com_erro |-> <<>>,
          candidatos |-> c]
    ELSE [raised |-> FALSE, documentos |-> c, arquivos_com_erro |-> <<>>,
          candidatos |-> c]

\* assistente_suporte.py: the loop over lazy_load(), one try per item; as the
\* code has it, an item stands for one file and fails, if it does, when
\* documentos.extend consumes it
RECURSIVE CarregarUmPorUm(_, _, _, _)
CarregarUmPorUm(arqs, c, docs, erros) ==
    IF c = <<>>
    THEN [documentos |-> docs, arquivos_com_erro |-> erros]
    ELSE IF arqs[Head(c)].legivel
         THEN CarregarUmPorUm(arqs, Tail(c), Append(docs, Head(c)), erros)
         ELSE CarregarUmPorUm(arqs, Tail(c), docs,
                  Append(erros, [arquivo |-> Head(c), erro |-> ErroDeLeitura]))

LazyLoad(arqs) ==
    LET c == CandidatosChat(arqs)
        r == CarregarUmPorUm(arqs, c, <<>>, <<>>)
    IN [raised |-> FALSE, documentos |-> r.documentos,
        arquivos_com_erro |-> r.arquivos_com_erro, candidatos |-> c]

-----------------------------------------------------------------------------
(* The pipeline handle and the Answerer *)

Sessoes == {"s1", "s2"}

Some(x) == <<x>>
None == <<>>

\* chunking, embeddings, FAISS.from_documents and RetrievalQA.from_chain_type:
\* the n-th execution of the build step yields handle n, or raises
BuildOutcomes == {"ok"} \cup Erros

\* qa_chain.invoke({"query": q})["result"] on handle h
Resultado(h, q) == <<"resultado da cadeia ", ToString(h), " para: ">> \o q

\* f"Desculpe, ocorreu um erro ao processar sua pergunta: {e}"
Desculpa(e) == <<"Desculpe, ocorreu um erro ao processar sua pergunta: ", e>>

InvokeOutcomes == {"ok"} \cup Erros

-----------------------------------------------------------------------------
(* Texts shown to the operator *)

ConsoleSemChave ==
    <<"Erro: A variavel de ambiente GOOGLE_API_KEY nao foi encontrada.">>
ConsoleDicaChave ==
    <<"Por favor, crie um arquivo .env e adicione a linha: GOOGLE_API_KEY='sua-chave-aqui'">>
ConsoleIniciando == <<"Iniciando o assistente de TI com Gemini...">>
ConsoleSemDiretorio ==
    <<"Erro: O diretorio './base_de_conhecimento' nao foi encontrado.">>
ConsoleDicaDiretorio ==
    <<"Por favor, crie a pasta e adicione seus arquivos de conhecimento.">>
ConsoleCarregando == <<"Carregando documentos de './base_de_conhecimento'...">>
ConsoleSemDocumentos ==
    <<"Nenhum documento encontrado na pasta. O assistente nao tera conhecimento especifico.">>
ConsoleCarregados(n) == <<ToString(n), " documentos carregados com sucesso.">>
ConsolePronto ==
    <<"Assistente de Suporte TI (Gemini) pronto! Faca sua pergunta ou digite 'sair' para encerrar.">>
ConsoleAteLogo == <<"Ate logo!">>
ConsoleBuscando == <<"Buscando na base de conhecimento...">>
ConsoleResposta == <<"Resposta do Assistente:">>
ConsoleSeparador == <<"--------------------------------------------------">>

ChatSemChave ==
    <<"A variavel de ambiente GOOGLE_API_KEY nao foi encontrada. Configure-a no arquivo .env.">>
ChatSemDiretorio == <<"O diretorio './base_de_conhecimento' nao foi encontrado.">>
ChatAlgunsArquivos == <<"Alguns arquivos nao puderam ser carregados:">>
ChatErroArquivo(e) ==
    <<"Arquivo: '", ToString(e.arquivo), "' - Erro: ", e.erro>>
ChatSemDocumentos ==
    <<"Nenhum documento valido foi lido com sucesso na base de conhecimento.">>
ChatCarregada(n) ==
    <<"Base de conhecimento carregada! ", ToString(n),
      " documentos foram processados com sucesso.">>
ChatNaoPronto ==
    <<"O assistente nao esta pronto. Verifique as mensagens de erro ou aviso acima.">>
Saudacao == [role |-> "assistant", content |-> <<"Ola! Como posso te ajudar hoje?">>]

\* one element on the chat page
El(tipo, texto) == [el |-> tipo, texto |-> texto]

-----------------------------------------------------------------------------
(* Process termination *)

\* exit(code): SystemExit(code); code None is status 0
ExitStatus(code) == IF code = None THEN 0 ELSE code[1]

\* an exception nobody catches ends the interpreter with status 1
UncaughtStatus == {1}

\* the record of a step
Passo(op, s, entrada, invocou, erro, resposta) ==
    [op |-> op, sessao |-> s, entrada |-> entrada, invocou |-> invocou,
     erro |-> erro, resposta |-> resposta]

-----------------------------------------------------------------------------
(* Initial states: the environment is any directory, with or without the
   credential; nothing has run *)

Init ==
    /\ frontend \in {"console", "chat"}
    /\ GOOGLE_API_KEY \in BOOLEAN
    /\ dirExiste \in BOOLEAN
    /\ arquivos \in Diretorios
    /\ (~dirExiste => arquivos = <<>>)
    /\ pc = IF frontend = "console" THEN "check_key" ELSE "servindo"
    /\ exitCode = {}
    /\ stdout = <<>>
    /\ documentos = <<>>
    /\ qa_chain = None
    /\ cache = None
    /\ messages = [s \in Sessoes |-> None]
    /\ tela = [s \in Sessoes |-> <<>>]
    /\ widget = [s \in Sessoes |-> FALSE]
    /\ carga = None
    /\ builds = 0
    /\ construidos = {}
    /\ usados = {}
    /\ lidas = 0
    /\ invocacoes = 0
    /\ last = Passo("inicio", "", None, FALSE, "", <<>>)

ambiente == <<frontend, GOOGLE_API_KEY, dirExiste, arquivos>>
chatVars == <<cache, messages, tela, widget>>
consoleVars == <<pc, exitCode, stdout, documentos, qa_chain>>

-----------------------------------------------------------------------------
(* main.py *)

\* exit() with no argument
ConsoleExit == /\ pc' = "encerrado"
               /\ exitCode' = {ExitStatus(None)}

\* an exception propagates out of the script
ConsoleCrash == /\ pc' = "abortado"
                /\ exitCode' = UncaughtStatus

\* lines 14-22
ConsoleCheckKey ==
    /\ frontend = "console" /\ pc = "check_key"
    /\ IF ~GOOGLE_API_KEY
       THEN /\ stdout' = stdout \o <<ConsoleSemChave, ConsoleDicaChave>>
            /\ ConsoleExit
       ELSE /\ stdout' = Append(stdout, ConsoleIniciando)
            /\ pc' = "check_dir"
            /\ UNCHANGED exitCode
    /\ last' = Passo("check_key", "", None, FALSE, "", <<>>)
    /\ UNCHANGED <<ambiente, chatVars, documentos, qa_chain, carga, builds,
                   construidos, usados, lidas, invocacoes>>

\* lines 25-30
ConsoleCheckDir ==
    /\ frontend = "console" /\ pc = "check_dir"
    /\ IF ~dirExiste
       THEN /\ stdout' = stdout \o <<ConsoleSemDiretorio, ConsoleDicaDiretorio>>
            /\ ConsoleExit
       ELSE /\ stdout' = Append(stdout, ConsoleCarregando)
            /\ pc' = "load"
            /\ UNCHANGED exitCode
    /\ last' = Passo("check_dir", "", None, FALSE, "", <<>>)
    /\ UNCHANGED <<ambiente, chatVars, documentos, qa_chain, carga, builds,
                   construidos, usados, lidas, invocacoes>>

\* lines 31-41
ConsoleLoad ==
    /\ frontend = "console" /\ pc = "load"
    /\ LET r == LoaderLoad(arquivos) IN
       /\ carga' = Some(r)
       /\ IF r.raised
          THEN /\ ConsoleCrash
               /\ UNCHANGED <<stdout, documentos>>
               /\ last' = Passo("load", "", None, FALSE, ErroDeLeitura, <<>>)
          ELSE /\ documentos' = r.documentos
               /\ last' = Passo("load", "", None, FALSE, "", <<>>)
               /\ IF r.documentos = <<>>
                  THEN /\ stdout' = Append(stdout, ConsoleSemDocumentos)
                       /\ ConsoleExit
                  ELSE /\ stdout' = Append(stdout,
                                       ConsoleCarregados(Len(r.documentos)))
                       /\ pc' = "build"
                       /\ UNCHANGED exitCode
    /\ UNCHANGED <<ambiente, chatVars, qa_chain, builds, construidos, usados,
                   lidas, invocacoes>>

\* lines 43-67
ConsoleBuild(b) ==
    /\ frontend = "console" /\ pc = "build"
    /\ builds < MaxBuilds
    /\ builds' = builds + 1
    /\ IF b = "ok"
       THEN /\ qa_chain' = Some(builds + 1)
            /\ construidos' = construidos \cup {builds + 1}
            /\ stdout' = Append(stdout, ConsolePronto)
            /\ pc' = "loop"
            /\ UNCHANGED exitCode
            /\ last' = Passo("build", "", None, FALSE, "", <<>>)
       ELSE /\ ConsoleCrash
            /\ UNCHANGED <<qa_chain, construidos, stdout>>
            /\ last' = Passo("build", "", None, FALSE, b, <<>>)
    /\ UNCHANGED <<ambiente, chatVars, documentos, carga, usados, lidas,
                   invocacoes>>

Sair == <<"s","a","i","r">>

\* the comparison of line 72 without .lower()
EhComandoDeSaidaSemLower(pergunta) == pergunta = Sair

\* line 72: pergunta.lower() == 'sair'
EhComandoDeSaida(pergunta) == Lower(pergunta) = Sair

\* line 76: not pergunta.strip()
EhVazia(pergunta) == ~Truthy(Strip(pergunta))

\* lines 70-85: one turn of the while loop
ConsoleLoop(pergunta, r) ==
    /\ frontend = "console" /\ pc = "loop"
    /\ lidas < MaxEntradas
    /\ (EhComandoDeSaida(pergunta) \/ EhVazia(pergunta)) => r = "ok"
    /\ lidas' = lidas + 1
    /\ IF EhComandoDeSaida(pergunta)
       THEN /\ stdout' = Append(stdout, ConsoleAteLogo)
            /\ pc' = "encerrado"
            /\ exitCode' = {ExitStatus(None)}
            /\ last' = Passo("loop", "", Some(pergunta), FALSE, "", <<>>)
            /\ UNCHANGED <<usados, invocacoes>>
       ELSE IF EhVazia(pergunta)
       THEN /\ last' = Passo("loop", "", Some(pergunta), FALSE, "", <<>>)
            /\ UNCHANGED <<stdout, pc, exitCode, usados, invocacoes>>
       ELSE /\ invocacoes' = invocacoes + 1
            /\ usados' = usados \cup {qa_chain[1]}
            /\ IF r = "ok"
               THEN /\ stdout' = stdout \o
                          <<ConsoleBuscando, ConsoleResposta,
                            Resultado(qa_chain[1], pergunta), ConsoleSeparador>>
                    /\ last' = Passo("loop", "", Some(pergunta), TRUE, "",
                                     Resultado(qa_chain[1], pergunta))
                    /\ UNCHANGED <<pc, exitCode>>
               ELSE /\ stdout' = Append(stdout, ConsoleBuscando)
                    /\ ConsoleCrash
                    /\ last' = Passo("loop", "", Some(pergunta), TRUE, r, <<>>)
    /\ UNCHANGED <<ambiente, chatVars, documentos, qa_chain, carga, builds,
                   construidos>>

-----------------------------------------------------------------------------
(* assistente_suporte.py *)

\* lines 67-70: the warning and one line per file that failed
AvisosDeArquivos(erros) ==
    IF erros = <<>>
    THEN <<>>
    ELSE <<El("warning", ChatAlgunsArquivos)>> \o
         [k \in 1..Len(erros) |-> El("write", ChatErroArquivo(erros[k]))]

\* carregar_recursos without the os.path.isdir check of lines 35-38
CarregarRecursosSemIsdir(n, b) ==
    IF ~GOOGLE_API_KEY
    THEN [raised |-> FALSE, build |-> FALSE, erro |-> "", carga |-> None,
          valor |-> [qa_chain |-> None, num_docs |-> None],
          elems |-> <<El("error", ChatSemChave)>>]
    ELSE LET r == LazyLoad(arquivos)
             avisos == AvisosDeArquivos(r.arquivos_com_erro)
         IN IF r.documentos = <<>>
            THEN [raised |-> FALSE, build |-> FALSE, erro |-> "",
                  carga |-> Some(r),
                  valor |-> [qa_chain |-> None, num_docs |-> None],
                  elems |-> Append(avisos, El("error", ChatSemDocumentos))]
            ELSE IF b = "ok"
            THEN [raised |-> FALSE, build |-> TRUE, erro |-> "",
                  carga |-> Some(r),
                  valor |-> [qa_chain |-> Some(n),
                             num_docs |-> Some(Len(r.documentos))],
                  elems |-> avisos]
            ELSE [raised |-> TRUE, build |-> TRUE, erro |-> b,
                  carga |-> Some(r),
                  valor |-> [qa_chain |-> None, num_docs |-> None],
                  elems |-> avisos]

\* lines 25-95: the body of carregar_recursos; n is the number the build step
\* would give its handle, b what the provider does during the build.
\* valor is the pair returned, elems the st.* elements the body emitted.
CarregarRecursos(n, b) ==
    IF ~GOOGLE_API_KEY
    THEN [raised |-> FALSE, build |-> FALSE, erro |-> "", carga |-> None,
          valor |-> [qa_chain |-> None, num_docs |-> None],
          elems |-> <<El("error", ChatSemChave)>>]
    ELSE IF ~dirExiste
    THEN [raised |-> FALSE, build |-> FALSE, erro |-> "", carga |-> None,
          valor |-> [qa_chain |-> None, num_docs |-> None],
          elems |-> <<El("error", ChatSemDiretorio)>>]
    ELSE LET r == LazyLoad(arquivos)
             avisos == AvisosDeArquivos(r.arquivos_com_erro)
         IN IF r.documentos = <<>>
            THEN [raised |-> FALSE, build |-> FALSE, erro |-> "",
                  carga |-> Some(r),
                  valor |-> [qa_chain |-> None, num_docs |-> None],
                  elems |-> Append(avisos, El("error", ChatSemDocumentos))]
            ELSE IF b = "ok"
            THEN [raised |-> FALSE, build |-> TRUE, erro |-> "",
                  carga |-> Some(r),
                  valor |-> [qa_chain |-> Some(n),
                             num_docs |-> Some(Len(r.documentos))],
                  elems |-> avisos]
            ELSE [raised |-> TRUE, build |-> TRUE, erro |-> b,
                  carga |-> Some(r),
                  valor |-> [qa_chain |-> None, num_docs |-> None],
                  elems |-> avisos]

\* carregar_recursos without the @st.cache_resource decorator
CacheHitSemDecorator == FALSE

\* line 24, @st.cache_resource: a stored entry is returned (and the elements
\* its computation emitted are replayed) without running the body; a body
\* that raises stores nothing
CacheHit == cache # None

\* lines 106-108 without the test "messages" not in st.session_state
MensagensIniciaisSemTeste(s) == <<Saudacao>>

\* lines 106-108
MensagensIniciais(s) ==
    IF messages[s] = None THEN <<Saudacao>> ELSE messages[s][1]

\* lines 124-128: the answer, or the apology when invoke raises
Responder(h, prompt, r) ==
    IF r = "ok" THEN Resultado(h, prompt) ELSE Desculpa(r)

\* lines 116-132: what a submitted prompt appends to the transcript
NovasMensagens(h, prompt, r) ==
    << [role |-> "user", content |-> prompt],
       [role |-> "assistant", content |-> Responder(h, prompt, r)] >>

\* line 116: the walrus test on what st.chat_input returned
PromptAceito(sub) == sub # None /\ Truthy(sub[1])

\* lines 111-113
Historico(msgs) ==
    [k \in 1..Len(msgs) |-> El(msgs[k].role, msgs[k].content)]

\* one run of the script for session s (lines 99-135): sub is what the user
\* submitted in the chat input since the previous run (None when the run has
\* another cause), b and r what the provider does during a build and an invoke
ChatRun(s, sub, b, r) ==
    /\ frontend = "chat"
    /\ sub # None => (widget[s] /\ lidas < MaxEntradas)
    /\ CacheHit => b = "ok"               \* no build: b is not consulted
    /\ ~PromptAceito(sub) => r = "ok"     \* no invoke: r is not consulted
    /\ LET res == IF CacheHit
                  THEN [raised |-> FALSE, build |-> FALSE, erro |-> "",
                        carga |-> carga, valor |-> cache[1].valor,
                        elems |-> cache[1].elems]
                  ELSE CarregarRecursos(builds + 1, b)
           chain == res.valor.qa_chain
       IN
       /\ res.build => builds < MaxBuilds
       /\ builds' = IF res.build THEN builds + 1 ELSE builds
       /\ carga' = res.carga
       /\ IF res.raised
          THEN \* the exception ends the script run; nothing is stored
               /\ cache' = cache
               /\ tela' = [tela EXCEPT ![s] =
                              Append(res.elems, El("exception", <<res.erro>>))]
               /\ widget' = [widget EXCEPT ![s] = FALSE]
               /\ last' = Passo("run", s, None, FALSE, res.erro, <<>>)
               /\ UNCHANGED <<messages, construidos, usados, lidas, invocacoes>>
          ELSE
          /\ cache' = Some([valor |-> res.valor, elems |-> res.elems])
          /\ construidos' = IF res.build
                            THEN construidos \cup {chain[1]}
                            ELSE construidos
          /\ IF chain # None
             THEN LET msgs == MensagensIniciais(s)
                      topo == res.elems \o
                              <<El("success", ChatCarregada(res.valor.num_docs[1]))>>
                              \o Historico(msgs)
                  IN
                  /\ widget' = [widget EXCEPT ![s] = TRUE]
                  /\ lidas' = IF sub # None THEN lidas + 1 ELSE lidas
                  /\ IF PromptAceito(sub)
                     THEN LET novas == NovasMensagens(chain[1], sub[1], r) IN
                          /\ messages' = [messages EXCEPT ![s] = Some(msgs \o novas)]
                          /\ tela' = [tela EXCEPT ![s] = topo \o Historico(novas)]
                          /\ invocacoes' = invocacoes + 1
                          /\ usados' = usados \cup {chain[1]}
                          /\ last' = Passo("run", s, sub, TRUE,
                                           IF r = "ok" THEN "" ELSE r,
                                           novas[2].content)
                     ELSE /\ messages' = [messages EXCEPT ![s] = Some(msgs)]
                          /\ tela' = [tela EXCEPT ![s] = topo]
                          /\ last' = Passo("run", s, sub, FALSE, "", <<>>)
                          /\ UNCHANGED <<invocacoes, usados>>
             ELSE /\ tela' = [tela EXCEPT ![s] =
                                 Append(res.elems, El("warning", ChatNaoPronto))]
                  /\ widget' = [widget EXCEPT ![s] = FALSE]
                  /\ last' = Passo("run", s, None, FALSE, "", <<>>)
                  /\ UNCHANGED <<messages, lidas, invocacoes, usados>>
    /\ UNCHANGED <<ambiente, consoleVars>>

-----------------------------------------------------------------------------

Next ==
    \/ ConsoleCheckKey
    \/ ConsoleCheckDir
    \/ ConsoleLoad
    \/ \E b \in BuildOutcomes : ConsoleBuild(b)
    \/ \E pergunta \in Entradas, r \in InvokeOutcomes : ConsoleLoop(pergunta, r)
    \/ \E s \in Sessoes, sub \in {None} \cup {Some(p) : p \in Entradas},
          b \in BuildOutcomes, r \in InvokeOutcomes : ChatRun(s, sub, b, r)

Spec == Init /\ [][Next]_vars

-----------------------------------------------------------------------------
(* Vocabulary of the properties *)

Contem(texto, e) == \E k \in DOMAIN texto : texto[k] = e

Elementos(seq) == {seq[k] : k \in DOMAIN seq}

Hist(s) == IF messages[s] = None THEN <<>> ELSE messages[s][1]

EhPrefixo(a, b) == Len(a) <= Len(b) /\ SubSeq(b, 1, Len(a)) = a

\* the last step read an input
LeuEntrada == last.entrada # None

\* the last step called the Answerer and the call raised
FalhouAoResponder == last.invocou /\ last.erro # ""

\* the process is at the point where it accepts the next question
AceitaProximaPergunta ==
    /\ exitCode = {}
    /\ frontend = "console" => (pc = "loop" /\ qa_chain # None)
    /\ frontend = "chat" =>
          (cache # None /\ cache[1].valor.qa_chain # None /\ widget[last.sessao])

\* why setup failed: the first check that fails, "nenhum" when none did
MotivoDaFalha ==
    IF ~GOOGLE_API_KEY THEN "credencial"
    ELSE IF ~dirExiste THEN "diretorio"
    ELSE IF carga # None /\ ~carga[1].raised /\ carga[1].documentos = <<>>
    THEN "sem_documentos"
    ELSE "nenhum"

MensagemDoMotivo(m) ==
    IF frontend = "console"
    THEN (CASE m = "credencial" -> ConsoleSemChave
            [] m = "diretorio" -> ConsoleSemDiretorio
            [] OTHER -> ConsoleSemDocumentos)
    ELSE (CASE m = "credencial" -> ChatSemChave
            [] m = "diretorio" -> ChatSemDiretorio
            [] OTHER -> ChatSemDocumentos)

MensagensDeFalha ==
    {ConsoleSemChave, ConsoleSemDiretorio, ConsoleSemDocumentos,
     ChatSemChave, ChatSemDiretorio, ChatSemDocumentos}

\* the failure messages on the page of session s
ErrosNaTela(s) ==
    {tela[s][k].texto : k \in {j \in DOMAIN tela[s] : tela[s][j].el = "error"}}

-----------------------------------------------------------------------------
(* C1: in both front-ends a failing answer call is caught where it is made and
   becomes an apology that contains the error description, which is shown; the
   session goes on and offers the next prompt.
   main.py calls qa_chain.invoke with no handler: this does not hold. *)
C1_FalhaViraDesculpa ==
    FalhouAoResponder =>
        /\ last.resposta = Desculpa(last.erro)
        /\ Contem(last.resposta, last.erro)
        /\ frontend = "chat" =>
              El("assistant", last.resposta) \in Elementos(tela[last.sessao])
        /\ frontend = "console" => last.resposta \in Elementos(stdout)
        /\ AceitaProximaPergunta

(* C2: in both front-ends, when setup fails because the credential is absent,
   the directory is absent or zero documents were loaded, the question loop is
   never entered (no input read, the Answerer never invoked) and the message
   shown is the one of that reason and of no other. *)
C2_FalhaDeSetupNaoEntraNoLoop ==
    MotivoDaFalha # "nenhum" =>
        /\ lidas = 0
        /\ invocacoes = 0
        /\ construidos = {}
        /\ pc \notin {"build", "loop"}
        /\ \A s \in Sessoes : ~widget[s] /\ messages[s] = None
        /\ (frontend = "console" /\ pc = "encerrado") =>
              Elementos(stdout) \cap MensagensDeFalha
                  = {MensagemDoMotivo(MotivoDaFalha)}
        /\ \A s \in Sessoes :
              (frontend = "chat" /\ tela[s] # <<>>) =>
                  /\ ErrosNaTela(s) = {MensagemDoMotivo(MotivoDaFalha)}
                  /\ El("warning", ChatNaoPronto) \in Elementos(tela[s])

\* both sessions of the chat were refused for want of documents, the second
\* one from the cached result
C2_Witness ==
    /\ frontend = "chat"
    /\ MotivoDaFalha = "sem_documentos"
    /\ carga[1].arquivos_com_erro # <<>>
    /\ \A s \in Sessoes : tela[s] # <<>>

(* C3 as stated: in the console loop `sair` or `exit`, in any letter case,
   ends the loop without invoking the Answerer and without a further prompt. *)
C3_SairOuExitEncerra ==
    (frontend = "console" /\ LeuEntrada
        /\ Lower(last.entrada[1]) \in {Sair, <<"e","x","i","t">>}) =>
        /\ pc = "encerrado"
        /\ ~last.invocou
        /\ ~ENABLED (\E p \in Entradas, r \in InvokeOutcomes : ConsoleLoop(p, r))

(* C3 amended: in the console loop `sair`, in any letter case, ends the loop
   without invoking the Answerer and without a further prompt; `exit` is not a
   command and is answered as a question. *)
C3_SairEncerra ==
    /\ (frontend = "console" /\ LeuEntrada /\ Lower(last.entrada[1]) = Sair) =>
          /\ pc = "encerrado"
          /\ ~last.invocou
          /\ stdout[Len(stdout)] = ConsoleAteLogo
          /\ ~ENABLED (\E p \in Entradas, r \in InvokeOutcomes : ConsoleLoop(p, r))
    /\ (frontend = "console" /\ LeuEntrada
           /\ Lower(last.entrada[1]) = <<"e","x","i","t">>) =>
          last.invocou

C3_Witness ==
    /\ frontend = "console"
    /\ last.entrada = Some(<<"S","a","I","R">>)
    /\ lidas = 2
    /\ pc = "encerrado"

(* C4: in both front-ends an empty or whitespace-only input is rejected
   silently: no call of the Answerer, no answer, nothing added to the
   history, and the next input is accepted.
   The chat tests only the truth value of the prompt: this does not hold. *)
C4_EntradaVaziaRejeitada ==
    /\ (LeuEntrada /\ EhVazia(last.entrada[1])) =>
          /\ ~last.invocou
          /\ last.resposta = <<>>
          /\ AceitaProximaPergunta
    /\ \A s \in Sessoes : \A k \in DOMAIN Hist(s) :
          Hist(s)[k].role = "user" => ~EhVazia(Hist(s)[k].content)

(* C5: the console program ends with status 0 when the exit command ends the
   loop, and with a non-zero status when it stops for want of the credential
   or of the directory.
   main.py calls exit() with no argument: this does not hold. *)
C5_CodigoDeSaida ==
    /\ (pc = "encerrado" /\ last.op = "loop") => exitCode = {0}
    /\ (pc = "encerrado" /\ last.op \in {"check_key", "check_dir"}) =>
          (exitCode # {} /\ 0 \notin exitCode)

(* C6 as stated: within one process the index-build step runs at most once,
   and every question is answered with the handle it built. *)
C6_BuildNoMaximoUmaVez ==
    /\ builds <= 1
    /\ usados \subseteq construidos

\* the handle a setup request gets now, None when there is none
HandleAtual ==
    IF frontend = "console" THEN qa_chain
    ELSE IF cache = None THEN None ELSE cache[1].valor.qa_chain

(* C6 amended: within one process the index-build step runs to completion at
   most once: a build that raises stores nothing (the chat's next script run
   executes it again), and once a result is stored every later setup request
   returns it without running the build; every question is answered with the
   one handle that was built. *)
C6_UmUnicoHandle ==
    /\ [](/\ Cardinality(construidos) <= 1
          /\ usados \subseteq construidos
          /\ HandleAtual # None => construidos = {HandleAtual[1]}
          /\ construidos # {} => HandleAtual # None)
    /\ [][cache # None => (cache' = cache /\ builds' = builds)]_vars
    /\ [][qa_chain # None => (qa_chain' = qa_chain /\ builds' = builds)]_vars

\* a build raised, the rerun built the handle, and both sessions asked it
C6_Witness ==
    /\ frontend = "chat"
    /\ builds = 2
    /\ construidos = {2}
    /\ usados = {2}
    /\ \A s \in Sessoes : Len(Hist(s)) = 3

(* C7: loading isolates faults per file: every candidate is visited, each
   candidate that fails to parse gives one failure entry and no document, each
   parseable candidate gives its document, and the load never aborts.
   main.py calls loader.load() with no handler: this does not hold. *)
C7_FalhaIsoladaPorArquivo ==
    carga # None =>
        LET r == carga[1]
            ruins == SelectSeq(r.candidatos, LAMBDA k : ~arquivos[k].legivel)
            bons == SelectSeq(r.candidatos, LAMBDA k : arquivos[k].legivel)
        IN /\ ~r.raised
           /\ pc # "abortado"
           /\ r.documentos = bons
           /\ [k \in DOMAIN r.arquivos_com_erro |-> r.arquivos_com_erro[k].arquivo]
                 = ruins

(* C8: the candidates of the Loader are exactly the files whose extension is
   in the accepted set; a file with another extension gives neither a
   document nor an error.
   main.py globs "**/*.*": this does not hold. *)
C8_CandidatosPorExtensao ==
    carga # None =>
        /\ Elementos(carga[1].candidatos)
              = {k \in DOMAIN arquivos : arquivos[k].ext \in ExtensoesAceitas}
        /\ \A k \in DOMAIN arquivos :
              arquivos[k].ext \notin ExtensoesAceitas =>
                 /\ k \notin Elementos(carga[1].documentos)
                 /\ ~carga[1].raised

\* the history is the greeting followed by user/assistant pairs
HistoricoBemFormado(h) ==
    /\ h[1] = Saudacao
    /\ Len(h) % 2 = 1
    /\ \A k \in 1..((Len(h) - 1) \div 2) :
          /\ h[2 * k].role = "user"
          /\ h[2 * k + 1].role = "assistant"

\* session s accepted a question in this step
AceitouPergunta(s) ==
    /\ lidas' = lidas + 1
    /\ last'.sessao = s
    /\ Truthy(last'.entrada[1])

(* C9: the conversation history of a session is append-only and records every
   exchange: each accepted question appends the question as a user turn and
   then its answer or apology as an assistant turn, so the history is the
   greeting followed by the pairs in the order asked, and no turn is ever
   changed or removed. *)
C9_HistoricoSoCresce ==
    /\ [](\A s \in Sessoes : messages[s] # None => HistoricoBemFormado(Hist(s)))
    /\ [][\A s \in Sessoes :
            /\ messages[s] # None =>
                  (messages'[s] # None /\ EhPrefixo(Hist(s), Hist(s)'))
            /\ IF AceitouPergunta(s)
               THEN /\ Len(Hist(s)') = Len(Hist(s)) + 2
                    /\ Hist(s)'[Len(Hist(s)) + 1] =
                          [role |-> "user", content |-> last'.entrada[1]]
                    /\ Hist(s)'[Len(Hist(s)) + 2] =
                          [role |-> "assistant", content |-> last'.resposta]
                    /\ last'.resposta # <<>>
                    /\ last'.erro # "" => Contem(last'.resposta, last'.erro)
               ELSE messages[s] # None => Hist(s)' = Hist(s)
         ]_vars

\* a session holds two exchanges, the first an apology, the second an answer
C9_Witness ==
    /\ Len(Hist("s1")) = 5
    /\ Hist("s1")[3].content = Desculpa("503 Service Unavailable")
    /\ Hist("s1")[5].content = Resultado(1, <<"v","p","n">>)
    /\ messages["s2"] # None

(* C10: an exchange, failed or not, leaves the pipeline handle and the turns
   already recorded unchanged, and after a failed exchange the next question
   is accepted and answered by the same handle.
   In main.py a failed exchange ends the process (see C1): this does not hold. *)
C10_TrocaNaoAfetaOResto ==
    [][invocacoes' = invocacoes + 1 =>
          /\ HandleAtual' = HandleAtual
          /\ construidos' = construidos
          /\ \A s \in Sessoes : EhPrefixo(Hist(s), Hist(s)')
          /\ exitCode' = {}
          /\ frontend = "console" => pc' = "loop"
      ]_vars

====
